---- MODULE Spec2Model ----
(***************************************************************************)
(* Two one-shot migration scripts of the fitness application:              *)
(*   scripts/fix-food-servings-sql.py  (the serving-format fixer)          *)
(*   OldFiles/generate_exercise_sql.py (the exercise CSV-to-SQL generator) *)
(* Text is a sequence of one-character strings.  The two large fixed SQL   *)
(* blocks of the generator (sql_header, sql_footer) and Python's None are  *)
(* carried as one-element sequences holding a single named atom.           *)
(***************************************************************************)
EXTENDS Naturals, Sequences, FiniteSets, TLC

VARIABLES
    \* ---- fixer: main() of fix-food-servings-sql.py
    input_file,     \* [exists, content]: batch-insert-common-foods.sql
    lines,          \* f.readlines()
    fixed_lines,    \* the list main() appends to
    output_file,    \* [exists, content]: batch-insert-common-foods-fixed.sql
    pc,             \* position of main()
    \* ---- generator: generate_sql_from_csv()
    csv_file,       \* [exists, fieldnames, rows]: exercises_updated_muscles.csv
    inserts,        \* the list of INSERT statements
    row_index,      \* rows consumed from the DictReader so far
    sql_file,       \* [exists, open, content]: all_exercises_insert.sql
    gpc             \* position of generate_sql_from_csv()

fixer_vars == <<input_file, lines, fixed_lines, output_file, pc>>
gen_vars == <<csv_file, inserts, row_index, sql_file, gpc>>
vars == <<input_file, lines, fixed_lines, output_file, pc,
          csv_file, inserts, row_index, sql_file, gpc>>

----------------------------------------------------------------------------
(* Text helpers: the Python str methods the scripts use.                   *)

QUOTE == "'"
NL == "\n"
Whitespace == {" ", "\t", "\n"}
Digits == {"0", "1", "2", "3", "4", "5", "6", "7", "8", "9"}

DigitVal(c) ==
    CASE c = "0" -> 0 [] c = "1" -> 1 [] c = "2" -> 2 [] c = "3" -> 3
      [] c = "4" -> 4 [] c = "5" -> 5 [] c = "6" -> 6 [] c = "7" -> 7
      [] c = "8" -> 8 [] c = "9" -> 9

DigitChar(d) ==
    CASE d = 0 -> "0" [] d = 1 -> "1" [] d = 2 -> "2" [] d = 3 -> "3"
      [] d = 4 -> "4" [] d = 5 -> "5" [] d = 6 -> "6" [] d = 7 -> "7"
      [] d = 8 -> "8" [] d = 9 -> "9"

\* First position >= pos whose character is not in set (Len(s)+1 if none).
RECURSIVE SkipWhile(_, _, _)
SkipWhile(s, pos, set) ==
    IF pos <= Len(s) /\ s[pos] \in set THEN SkipWhile(s, pos + 1, set) ELSE pos

Min(S) == CHOOSE x \in S : \A y \in S : x <= y

\* First position >= pos holding character c (Len(s)+1 if none).
Find(s, pos, c) ==
    LET hits == { p \in pos..Len(s) : s[p] = c }
    IN  IF hits = {} THEN Len(s) + 1 ELSE Min(hits)

\* First position >= pos holding a quote (Len(s)+1 if none): the end of [^']*.
SkipNotQuote(s, pos) == Find(s, pos, QUOTE)

\* Last position <= pos whose character is not whitespace (0 if none).
RECURSIVE LastNonSpace(_, _)
LastNonSpace(s, pos) ==
    IF pos >= 1 /\ s[pos] \in Whitespace THEN LastNonSpace(s, pos - 1) ELSE pos

\* str.rstrip()
rstrip(s) == SubSeq(s, 1, LastNonSpace(s, Len(s)))

\* str.strip()
strip(s) == LET r == rstrip(s) IN SubSeq(r, SkipWhile(r, 1, Whitespace), Len(r))

\* str.startswith(prefix)
startswith(s, prefix) ==
    Len(s) >= Len(prefix) /\ SubSeq(s, 1, Len(prefix)) = prefix

\* str.endswith(suffix)
endswith(s, suffix) ==
    Len(s) >= Len(suffix) /\ SubSeq(s, Len(s) - Len(suffix) + 1, Len(s)) = suffix

\* Concatenation of a list of texts: ''.join(list), and what writelines() emits.
RECURSIVE Concat(_)
Concat(list) ==
    IF list = <<>> THEN <<>> ELSE Head(list) \o Concat(Tail(list))

\* sep.join(list)
RECURSIVE join(_, _)
join(sep, list) ==
    IF list = <<>> THEN <<>>
    ELSE IF Len(list) = 1 THEN Head(list)
    ELSE Head(list) \o sep \o join(sep, Tail(list))

\* file.readlines(): the text cut after every line break; a last line without
\* a line break is kept as it is.
RECURSIVE readlines_from(_, _)
readlines_from(text, start) ==
    IF start > Len(text) THEN <<>>
    ELSE LET stop == Find(text, start, NL)
         IN  IF stop > Len(text) THEN <<SubSeq(text, start, Len(text))>>
             ELSE <<SubSeq(text, start, stop)>> \o readlines_from(text, stop + 1)

readlines(text) == readlines_from(text, 1)

----------------------------------------------------------------------------
(* The 13-field pattern of fix_values_line and re.search.                  *)

\* The pattern, field by field: a quoted text, '([^']+)' or '([^']*)', or a
\* number, (\d+(?:\.\d+)?). The pattern opens with \( and closes with \);
\* its fields are separated by ,\s* .
TextPlus == "text+"
TextStar == "text*"
Number == "number"

pattern ==
    <<TextPlus, TextStar, Number, TextPlus,
      Number, Number, Number, Number, Number, Number,
      TextPlus, TextPlus, TextPlus>>

NoMatch == [ok |-> FALSE, end |-> 0, groups |-> <<>>]

\* End (exclusive) of \d+(?:\.\d+)? at pos; pos itself when no digit is there.
NumberEnd(s, pos) ==
    LET e1 == SkipWhile(s, pos, Digits)
    IN  IF e1 = pos THEN pos
        ELSE IF e1 + 1 <= Len(s) /\ s[e1] = "." /\ s[e1 + 1] \in Digits
               THEN SkipWhile(s, e1 + 1, Digits)
               ELSE e1

\* One field of the pattern at pos: [ok, from, to] with the group's text at
\* from..to-1, and next the position after the field.
match_field(s, pos, kind) ==
    IF kind = Number
      THEN LET stop == NumberEnd(s, pos)
           IN  [ok |-> stop > pos, from |-> pos, to |-> stop, next |-> stop]
      ELSE LET stop == SkipNotQuote(s, pos + 1)
           IN  [ok |-> /\ pos <= Len(s) /\ s[pos] = QUOTE
                       /\ stop <= Len(s)
                       /\ (kind = TextPlus => stop > pos + 1),
                from |-> pos + 1, to |-> stop, next |-> stop + 1]

\* The pattern from its k-th field on, matched at pos. No part of the pattern
\* can give back characters to the part after it (a repeated class is always
\* followed by a character outside the class), so the greedy match is the
\* only one.
RECURSIVE match_from(_, _, _, _)
match_from(s, pos, k, groups) ==
    LET f == match_field(s, pos, pattern[k])
    IN  IF ~f.ok THEN NoMatch
        ELSE LET found == Append(groups, SubSeq(s, f.from, f.to - 1))
             IN  IF k = Len(pattern)
                   THEN IF f.next <= Len(s) /\ s[f.next] = ")"
                          THEN [ok |-> TRUE, end |-> f.next + 1, groups |-> found]
                          ELSE NoMatch
                   ELSE IF f.next <= Len(s) /\ s[f.next] = ","
                          THEN match_from(s, SkipWhile(s, f.next + 1, Whitespace),
                                          k + 1, found)
                          ELSE NoMatch

\* The whole pattern matched at start.
match_at(s, start) ==
    IF s[start] = "(" THEN match_from(s, start + 1, 1, <<>>) ELSE NoMatch

\* re.search(pattern, line): the match at the leftmost position that has one.
re_search(line) ==
    LET starts == { p \in 1..Len(line) : match_at(line, p).ok }
    IN  IF starts = {} THEN NoMatch ELSE match_at(line, Min(starts))

----------------------------------------------------------------------------
(* fix_values_line                                                         *)

RECURSIVE digits_value(_, _)
digits_value(s, acc) ==
    IF s = <<>> THEN acc ELSE digits_value(Tail(s), acc * 10 + DigitVal(Head(s)))

\* Number of binary digits of n.
RECURSIVE bit_length(_)
bit_length(n) == IF n = 0 THEN 0 ELSE 1 + bit_length(n \div 2)

\* The decimal fraction 0.f (a digit text) is at least the fraction 0.t.
frac_at_least(f, t) ==
    LET digit(d, i) == IF i <= Len(d) THEN DigitVal(d[i]) ELSE 0
        differ == { i \in 1..(IF Len(f) > Len(t) THEN Len(f) ELSE Len(t)) :
                      digit(f, i) # digit(t, i) }
    IN  differ = {} \/ digit(f, Min(differ)) > digit(t, Min(differ))

\* Fraction digits of 1 - 2^(e-54): for a whole part n of e binary digits, the
\* binary64 values just below n+1 are 2^(e-53) apart, so n + 0.f is rounded
\* (to nearest, ties to even) up to n+1 exactly when 0.f is at least this.
round_up_from(e) ==
    CASE e = 0 -> <<"9", "9", "9", "9", "9", "9", "9", "9", "9", "9", "9", "9", "9", "9", "9", "9", "4", "4", "4", "8", "8", "8", "4", "8", "7", "6", "8", "7", "4", "2", "1", "7", "2", "9", "7", "8", "8", "1", "8", "4", "1", "6", "5", "9", "5", "4", "5", "8", "9", "8", "4", "3", "7", "5">>
      [] e = 1 -> <<"9", "9", "9", "9", "9", "9", "9", "9", "9", "9", "9", "9", "9", "9", "9", "8", "8", "8", "9", "7", "7", "6", "9", "7", "5", "3", "7", "4", "8", "4", "3", "4", "5", "9", "5", "7", "6", "3", "6", "8", "3", "3", "1", "9", "0", "9", "1", "7", "9", "6", "8", "7", "5">>
      [] e = 2 -> <<"9", "9", "9", "9", "9", "9", "9", "9", "9", "9", "9", "9", "9", "9", "9", "7", "7", "7", "9", "5", "5", "3", "9", "5", "0", "7", "4", "9", "6", "8", "6", "9", "1", "9", "1", "5", "2", "7", "3", "6", "6", "6", "3", "8", "1", "8", "3", "5", "9", "3", "7", "5">>
      [] e = 3 -> <<"9", "9", "9", "9", "9", "9", "9", "9", "9", "9", "9", "9", "9", "9", "9", "5", "5", "5", "9", "1", "0", "7", "9", "0", "1", "4", "9", "9", "3", "7", "3", "8", "3", "8", "3", "0", "5", "4", "7", "3", "3", "2", "7", "6", "3", "6", "7", "1", "8", "7", "5">>
      [] e = 4 -> <<"9", "9", "9", "9", "9", "9", "9", "9", "9", "9", "9", "9", "9", "9", "9", "1", "1", "1", "8", "2", "1", "5", "8", "0", "2", "9", "9", "8", "7", "4", "7", "6", "7", "6", "6", "1", "0", "9", "4", "6", "6", "5", "5", "2", "7", "3", "4", "3", "7", "5">>
      [] e = 5 -> <<"9", "9", "9", "9", "9", "9", "9", "9", "9", "9", "9", "9", "9", "9", "8", "2", "2", "3", "6", "4", "3", "1", "6", "0", "5", "9", "9", "7", "4", "9", "5", "3", "5", "3", "2", "2", "1", "8", "9", "3", "3", "1", "0", "5", "4", "6", "8", "7", "5">>
      [] e = 6 -> <<"9", "9", "9", "9", "9", "9", "9", "9", "9", "9", "9", "9", "9", "9", "6", "4", "4", "7", "2", "8", "6", "3", "2", "1", "1", "9", "9", "4", "9", "9", "0", "7", "0", "6", "4", "4", "3", "7", "8", "6", "6", "2", "1", "0", "9", "3", "7", "5">>
      [] e = 7 -> <<"9", "9", "9", "9", "9", "9", "9", "9", "9", "9", "9", "9", "9", "9", "2", "8", "9", "4", "5", "7", "2", "6", "4", "2", "3", "9", "8", "9", "9", "8", "1", "4", "1", "2", "8", "8", "7", "5", "7", "3", "2", "4", "2", "1", "8", "7", "5">>
      [] e = 8 -> <<"9", "9", "9", "9", "9", "9", "9", "9", "9", "9", "9", "9", "9", "8", "5", "7", "8", "9", "1", "4", "5", "2", "8", "4", "7", "9", "7", "9", "9", "6", "2", "8", "2", "5", "7", "7", "5", "1", "4", "6", "4", "8", "4", "3", "7", "5">>
      [] e = 9 -> <<"9", "9", "9", "9", "9", "9", "9", "9", "9", "9", "9", "9", "9", "7", "1", "5", "7", "8", "2", "9", "0", "5", "6", "9", "5", "9", "5", "9", "9", "2", "5", "6", "5", "1", "5", "5", "0", "2", "9", "2", "9", "6", "8", "7", "5">>
      [] e = 10 -> <<"9", "9", "9", "9", "9", "9", "9", "9", "9", "9", "9", "9", "9", "4", "3", "1", "5", "6", "5", "8", "1", "1", "3", "9", "1", "9", "1", "9", "8", "5", "1", "3", "0", "3", "1", "0", "0", "5", "8", "5", "9", "3", "7", "5">>

\* float(serving_size) for a text matching \d+(?:\.\d+)?, as far as int() of
\* it goes: the whole part of the nearest binary64 value. Serving sizes are
\* kept below 1024 here; a whole part of more than 308 digits (float gives
\* inf, and int(inf) raises OverflowError) is beyond the model.
float(s) ==
    LET e == SkipWhile(s, 1, Digits)
        n == digits_value(SubSeq(s, 1, e - 1), 0)
        f == SubSeq(s, e + 1, Len(s))
    IN  IF frac_at_least(f, round_up_from(bit_length(n)))
          THEN [whole |-> n + 1, frac |-> <<>>]
          ELSE [whole |-> n, frac |-> f]

\* int(x) of a non-negative float: truncation.
int(x) == x.whole

\* str(n), as the f-string renders an int.
RECURSIVE str_int(_)
str_int(n) ==
    IF n < 10 THEN <<DigitChar(n)>> ELSE str_int(n \div 10) \o <<DigitChar(n % 10)>>

\* Lines 35-39: the merged serving description.
serving_desc(serving_size, serving_unit) ==
    LET general == IF serving_unit # <<"g">>
                     THEN serving_size \o serving_unit
                     ELSE serving_size \o <<"g">>
    IN  IF serving_unit = <<"g">> /\ int(float(serving_size)) > 1
          THEN str_int(int(float(serving_size))) \o <<"g">>
          ELSE general

q(s) == <<QUOTE>> \o s \o <<QUOTE>>
CommaSpace == <<",", " ">>

\* Variant: the size column is left in place and the description takes the
\* place of the unit (13 fields).
new_line_keeps_size(g) ==
    <<" ", " ", "(">>
    \o q(g[1]) \o CommaSpace \o q(g[2]) \o CommaSpace
    \o g[3] \o CommaSpace \o q(serving_desc(g[3], g[4])) \o CommaSpace
    \o g[5] \o CommaSpace \o g[6] \o CommaSpace \o g[7] \o CommaSpace
    \o g[8] \o CommaSpace \o g[9] \o CommaSpace \o g[10] \o CommaSpace
    \o q(g[11]) \o CommaSpace \o q(g[12]) \o CommaSpace \o q(g[13])
    \o <<")">>

\* Variant: the sugar column is left out (11 fields).
new_line_drops_sugar(g) ==
    <<" ", " ", "(">>
    \o q(g[1]) \o CommaSpace \o q(g[2]) \o CommaSpace
    \o q(serving_desc(g[3], g[4])) \o CommaSpace
    \o g[5] \o CommaSpace \o g[6] \o CommaSpace \o g[7] \o CommaSpace
    \o g[8] \o CommaSpace \o g[9] \o CommaSpace
    \o q(g[11]) \o CommaSpace \o q(g[12]) \o CommaSpace \o q(g[13])
    \o <<")">>

\* Line 42: the f-string building the new tuple literal.
new_line(g) ==
    <<" ", " ", "(">>
    \o q(g[1]) \o CommaSpace \o q(g[2]) \o CommaSpace
    \o q(serving_desc(g[3], g[4])) \o CommaSpace
    \o g[5] \o CommaSpace \o g[6] \o CommaSpace \o g[7] \o CommaSpace
    \o g[8] \o CommaSpace \o g[9] \o CommaSpace \o g[10] \o CommaSpace
    \o q(g[11]) \o CommaSpace \o q(g[12]) \o CommaSpace \o q(g[13])
    \o <<")">>

\* Variant: the end of the line is tested without rstrip().
kept_punctuation_unstripped(line) ==
    IF endswith(line, <<",">>) THEN <<",">>
    ELSE IF endswith(line, <<";">>) THEN <<";">>
    ELSE <<>>

\* Lines 45-48: the trailing comma or semicolon that is kept.
kept_punctuation(line) ==
    IF endswith(rstrip(line), <<",">>) THEN <<",">>
    ELSE IF endswith(rstrip(line), <<";">>) THEN <<";">>
    ELSE <<>>

\* Variant: a line that is not a candidate is returned with its end
\* normalised (trailing whitespace dropped, one line break).
fix_values_line_normalised(line) ==
    IF ~startswith(strip(line), <<"(", QUOTE>>) THEN rstrip(line) \o <<NL>>
    ELSE LET match == re_search(line)
         IN  IF ~match.ok THEN line
             ELSE new_line(match.groups) \o kept_punctuation(line) \o <<NL>>

\* Lines 8-50.
fix_values_line(line) ==
    IF ~startswith(strip(line), <<"(", QUOTE>>) THEN line
    ELSE LET match == re_search(line)
         IN  IF ~match.ok THEN line
             ELSE new_line(match.groups) \o kept_punctuation(line) \o <<NL>>

----------------------------------------------------------------------------
(* Input files of the fixer.                                               *)

MaxContext == 1     \* lines around the line under study

\* A 13-field tuple literal as it stands in batch-insert-common-foods.sql.
Tuple13(name, brand, size, unit, numbers, cat, source, status, gap) ==
    <<"(">> \o q(name) \o <<",">> \o gap \o q(brand) \o <<",">> \o gap
    \o size \o <<",">> \o gap \o q(unit) \o <<",">> \o gap
    \o numbers[1] \o <<",">> \o gap \o numbers[2] \o <<",">> \o gap
    \o numbers[3] \o <<",">> \o gap \o numbers[4] \o <<",">> \o gap
    \o numbers[5] \o <<",">> \o gap \o numbers[6] \o <<",">> \o gap
    \o q(cat) \o <<",">> \o gap \o q(source) \o <<",">> \o gap \o q(status)
    \o <<")">>

Nums == <<<<"5", "7", "9">>, <<"2", "1">>, <<"2", ".", "5">>, <<"0">>, <<"1", "2">>, <<"4">>>>
BaseTuple(size, unit) ==
    Tuple13(<<"A", "l">>, <<"G", "e", "n">>, size, unit, Nums, <<"N", "u", "t", "s">>, <<"U", "S", "D", "A">>, <<"o", "k">>, <<" ">>)

Sizes == {<<"1">>, <<"0">>, <<"2">>, <<"1", "0", "0", ".", "0">>, <<"2", ".", "9">>, <<"1", ".", "5">>, <<"0", ".", "5">>, <<"3", "0">>,
          <<"0", "0", "7">>, <<"1", ".", "9", "9">>, <<"1", "0">>, <<"1", ".", "9", "9", "9", "9", "9", "9", "9", "9", "9", "9", "9", "9", "9", "9", "9", "8">>,
          <<"1", ".", "9", "9", "9", "9", "9", "9", "9", "9", "9", "9", "9", "9", "9", "9", "9", "9", "9">>, <<"2", ".", "9", "9", "9", "9", "9", "9", "9", "9", "9", "9", "9", "9", "9", "9", "9", "9", "9">>,
          <<"0", ".", "9", "9", "9", "9", "9", "9", "9", "9", "9", "9", "9", "9", "9", "9", "9", "9", "9">>}
Units == {<<"g">>, <<"c", "u", "p">>, <<"G">>, <<" ", "g">>}
Indents == {<<>>, <<" ", " ">>, <<"\t">>}
Tails == {<<>>, <<",">>, <<";">>, <<" ", ";">>, <<",", " ">>, <<";", ",">>, <<",", ";">>, <<" ", "-", "-", " ", "x">>,
          <<" ", "-", "-", " ", "x", ",">>, <<")">>}
Gaps == {<<>>, <<" ", "\t">>}

\* Lines whose tuple matches the pattern.
SizeUnitLines == { <<" ", " ">> \o BaseTuple(s, u) \o <<",">> : s \in Sizes, u \in Units }
LayoutLines ==
    { ind \o Tuple13(<<"A", "l">>, <<>>, <<"1", "0", "0", ".", "0">>, <<"g">>, Nums, <<"N">>, <<"U">>, <<"o", "k">>, gap) \o tail :
        ind \in Indents, tail \in Tails, gap \in Gaps }
OddFieldLines ==
    { <<" ", " ">> \o Tuple13(f[1], f[2], <<"2">>, f[3], Nums, f[4], f[5], f[6], <<" ">>) \o <<",">> :
        f \in { <<<<"a", "(">>, <<",">>, <<",", "5", ",">>, <<",", "1", ",", "2", ",", "3", ",", "4", ",", "5", ",", "6", ",">>, <<",">>, <<",">>>>,
                <<<<"R", "i", "c", "e", " ", "(", "r", "a", "w", ")">>, <<"(">>, <<"(">>, <<"(">>, <<"(">>, <<")">>>>,
                <<<<"(">>, <<",">>, <<",">>, <<",">>, <<",">>, <<"(">>>>,
                <<<<"a", ",", " ", "b">>, <<>>, <<"c", "i", ",", " ", "e">>, <<"(">>, <<",">>, <<",">>>>,
                <<<<"x">>, <<"y", "(">>, <<",", " ", "7", ",", " ">>, <<"z">>, <<"w", "(">>, <<",", " ">>>> } }
    \cup { <<"(", "'", "x", " ">> \o BaseTuple(<<"3">>, <<"g">>) \o <<";">>,
           <<" ", " ", "(", "'">> \o BaseTuple(<<"1">>, <<"g">>) \o BaseTuple(<<"5">>, <<"g">>) \o <<",">>,
           BaseTuple(<<"4">>, <<"g">>) \o <<",", " ">> \o BaseTuple(<<"5">>, <<"o", "z">>) }

\* Candidate lines (stripped form starts with (' ) that do not match.
UnmatchedCandidates ==
    { <<" ", " ", "(", "'", "A", "l", "'", ",", " ", "'", "G", "e", "n", "'", ",", " ", "'", "1", "0", "0", "g", "'", ",", " ", "5", "7", "9", ",", " ", "2", "1", ",", " ", "2", ".", "5", ",", " ", "0", ",", " ", "1", "2", ",", " ", "4", ",", " ", "'", "N", "u", "t", "s", "'", ",", " ", "'", "U", "S", "D", "A", "'", ",", " ", "'", "o", "k", "'", ")", ",">>,
      <<" ", " ", "(", "'", "A", "l", "'", ",", " ", "'", "G", "e", "n", "'", ",", " ", "'", "1", "c", "u", "p", "'", ",", " ", "5", "7", "9", ",", " ", "2", "1", ",", " ", "2", ".", "5", ",", " ", "0", ",", " ", "1", "2", ",", " ", "4", ",", " ", "'", "N", "u", "t", "s", "'", ",", " ", "'", "U", "S", "D", "A", "'", ",", " ", "'", "o", "k", "'", ")">>,
      <<"(", "'", "'", ",", " ", "'", "G", "e", "n", "'", ",", " ", "1", "0", "0", ",", " ", "'", "g", "'", ",", " ", "5", "7", "9", ",", " ", "2", "1", ",", " ", "2", ".", "5", ",", " ", "0", ",", " ", "1", "2", ",", " ", "4", ",", " ", "'", "N", "u", "t", "s", "'", ",", " ", "'", "U", "S", "D", "A", "'", ",", " ", "'", "o", "k", "'", ")", ",">>,
      <<"(", "'", "A", "l", "'", ",", " ", "'", "G", "e", "n", "'", ",", " ", "1", "0", "0", ",", " ", "'", "'", ",", " ", "5", "7", "9", ",", " ", "2", "1", ",", " ", "2", ".", "5", ",", " ", "0", ",", " ", "1", "2", ",", " ", "4", ",", " ", "'", "N", "u", "t", "s", "'", ",", " ", "'", "U", "S", "D", "A", "'", ",", " ", "'", "o", "k", "'", ")", ",">>,
      <<"(", "'", "A", "l", "'", ",", " ", "'", "G", "e", "n", "'", ",", " ", ".", "5", ",", " ", "'", "g", "'", ",", " ", "5", "7", "9", ",", " ", "2", "1", ",", " ", "2", ".", "5", ",", " ", "0", ",", " ", "1", "2", ",", " ", "4", ",", " ", "'", "N", "u", "t", "s", "'", ",", " ", "'", "U", "S", "D", "A", "'", ",", " ", "'", "o", "k", "'", ")", ",">>,
      <<"(", "'", "A", "l", "'", ",", " ", "'", "G", "e", "n", "'", ",", " ", "5", ".", ",", " ", "'", "g", "'", ",", " ", "5", "7", "9", ",", " ", "2", "1", ",", " ", "2", ".", "5", ",", " ", "0", ",", " ", "1", "2", ",", " ", "4", ",", " ", "'", "N", "u", "t", "s", "'", ",", " ", "'", "U", "S", "D", "A", "'", ",", " ", "'", "o", "k", "'", ")", ",">>,
      <<"(", "'", "A", "l", "'", ",", " ", "'", "G", "e", "n", "'", ",", " ", "-", "5", ",", " ", "'", "g", "'", ",", " ", "5", "7", "9", ",", " ", "2", "1", ",", " ", "2", ".", "5", ",", " ", "0", ",", " ", "1", "2", ",", " ", "4", ",", " ", "'", "N", "u", "t", "s", "'", ",", " ", "'", "U", "S", "D", "A", "'", ",", " ", "'", "o", "k", "'", ")", ",">>,
      <<"(", "'", "A", "l", "'", ",", " ", "'", "G", "e", "n", "'", ",", " ", "5", ",", " ", "'", "g", "'", ",", " ", "5", "7", "9", ",", " ", "2", "1", ",", " ", "2", ".", "5", ",", " ", "0", ",", " ", "1", "2", ",", " ", "N", "U", "L", "L", ",", " ", "'", "N", "u", "t", "s", "'", ",", " ", "'", "U", "S", "D", "A", "'", ",", " ", "'", "o", "k", "'", ")", ",">>,
      <<"(", "'", "A", "l", "'", ",", " ", "'", "G", "e", "n", "'", ",", " ", "5", " ", ",", " ", "'", "g", "'", ",", " ", "5", "7", "9", ",", " ", "2", "1", ",", " ", "2", ".", "5", ",", " ", "0", ",", " ", "1", "2", ",", " ", "4", ",", " ", "'", "N", "u", "t", "s", "'", ",", " ", "'", "U", "S", "D", "A", "'", ",", " ", "'", "o", "k", "'", ")", ",">>,
      <<"(", "'", "O", "'", "'", "B", "'", ",", " ", "'", "G", "e", "n", "'", ",", " ", "5", ",", " ", "'", "g", "'", ",", " ", "5", "7", "9", ",", " ", "2", "1", ",", " ", "2", ".", "5", ",", " ", "0", ",", " ", "1", "2", ",", " ", "4", ",", " ", "'", "N", "u", "t", "s", "'", ",", " ", "'", "U", "S", "D", "A", "'", ",", " ", "'", "o", "k", "'", ")", ",">>,
      <<"(", "'", "A", "l", "'", ",", " ", "'", "G", "e", "n", "'", ",", " ", "5", ",", " ", "'", "g", "'", ",", " ", "5", "7", "9", ",", " ", "2", "1", ",", " ", "2", ".", "5", ",", " ", "0", ",", " ", "1", "2", ",", " ", "4", ",", " ", "'", "N", "u", "t", "s", "'", ",", " ", "'", "U", "S", "D", "A", "'", ",", " ", "'", "o", "k", "'", " ", ")", ",">>,
      <<"(", "'", "A", "l", "'", ",", " ", "'", "G", "e", "n", "'", ",", " ", "5", ",", " ", "'", "g", "'", ",", " ", "5", "7", "9", ",", " ", "2", "1", ",", " ", "2", ".", "5", ",", " ", "0", ",", " ", "1", "2", ",", " ", "4", ",", " ", "'", "N", "u", "t", "s", "'", ",", " ", "'", "U", "S", "D", "A", "'", ")", ",">>,
      <<"(", "'", "A", "l", "'", ",", " ", "'", "G", "e", "n", "'", ",", " ", "5", ",", " ", "'", "g", "'", ",", " ", "5", "7", "9", ",", " ", "2", "1", ",", " ", "2", ".", "5", ",", " ", "0", ",", " ", "1", "2", ",", " ", "4", ",", " ", "'", "N", "u", "t", "s", "'", ",", " ", "'", "U", "S", "D", "A", "'", ",", " ", "'", "o", "k", "'", ",", " ", "'", "x", "'", ")", ",">>,
      <<" ", "(", "'">>, <<"(", "'", "A", "l", "'", ")", ",">> }

\* Lines whose stripped form does not start with (' .
OtherLines ==
    { <<"-", "-", " ", "I", "n", "s", "e", "r", "t", " ", "f", "o", "o", "d", "s">>, <<>>, <<" ", " ", " ">>, <<"I", "N", "S", "E", "R", "T", " ", "I", "N", "T", "O", " ", "f", "o", "o", "d", "s", " ", "(", "a", ",", " ", "b", ")", " ", "V", "A", "L", "U", "E", "S">>, <<")", ";">>,
      <<"V", "A", "L", "U", "E", "S", " ", "(", "'", "A", "l", "'", ",", " ", "'", "G", "e", "n", "'", ",", " ", "1", "0", "0", ".", "0", ",", " ", "'", "g", "'", ",", " ", "5", "7", "9", ",", " ", "2", "1", ",", " ", "2", ".", "5", ",", " ", "0", ",", " ", "1", "2", ",", " ", "4", ",", " ", "'", "N", "u", "t", "s", "'", ",", " ", "'", "U", "S", "D", "A", "'", ",", " ", "'", "o", "k", "'", ")", ",">>,
      <<"(", "1", ",", " ", "'", "g", "'", ",", " ", "2", ")", ",">>, <<"-", "-", " ", "(", "'", "x", "'">>, <<" ", "(", " ", "'", "A", "l", "'", ",", " ", "'", "G", "'", ")", ",">> }

LineSet ==
    SizeUnitLines \cup LayoutLines \cup OddFieldLines
    \cup UnmatchedCandidates \cup OtherLines

ContextLines ==
    { <<"-", "-", " ", "c">>, <<" ", " ">> \o BaseTuple(<<"5", "0", ".", "0">>, <<"g">>) \o <<",">> }

RECURSIVE SeqsUpTo(_, _)
SeqsUpTo(S, n) ==
    IF n = 0 THEN {<<>>}
    ELSE LET shorter == SeqsUpTo(S, n - 1)
         IN  shorter \cup { Append(s, x) : s \in {t \in shorter : Len(t) = n - 1}, x \in S }

\* The lines of a file: the line under study with context lines before and
\* after it.
FileLines ==
    { pre \o <<l>> \o post :
        l \in LineSet,
        pre \in SeqsUpTo(ContextLines, MaxContext),
        post \in SeqsUpTo(ContextLines, MaxContext) }

\* The text of a file: every line ends with a line break, the last one only
\* when final_newline.
RECURSIVE FileText(_, _)
FileText(ls, final_newline) ==
    IF ls = <<>> THEN <<>>
    ELSE IF Len(ls) = 1
           THEN Head(ls) \o (IF final_newline THEN <<NL>> ELSE <<>>)
           ELSE Head(ls) \o <<NL>> \o FileText(Tail(ls), final_newline)

NoFile == [exists |-> FALSE, content |-> <<>>]

InputFiles ==
    { [exists |-> TRUE, content |-> FileText(ls, nl)] :
        \* at most MaxContext context lines in all
        ls \in { f \in FileLines : Len(f) <= MaxContext + 1 }, nl \in BOOLEAN }
    \cup { [exists |-> TRUE, content |-> <<>>], NoFile }

----------------------------------------------------------------------------
(* main() of the fixer.                                                    *)

GenIdle ==
    /\ csv_file = [exists |-> FALSE, fieldnames |-> {}, rows |-> <<>>]
    /\ inserts = <<>>
    /\ row_index = 0
    /\ sql_file = [exists |-> FALSE, open |-> FALSE, content |-> <<>>]
    /\ gpc = "idle"

Init ==
    /\ input_file \in InputFiles
    /\ lines = <<>>
    /\ fixed_lines = <<>>
    /\ output_file = NoFile
    /\ pc = "start"
    /\ GenIdle

\* Lines 56-57: open(input_file) and f.readlines(); a missing file raises.
ReadInput ==
    /\ pc = "start"
    /\ IF input_file.exists
         THEN /\ lines' = readlines(input_file.content)
              /\ pc' = "loop"
         ELSE /\ lines' = lines
              /\ pc' = "failed"
    /\ UNCHANGED <<input_file, fixed_lines, output_file, gen_vars>>

\* Variant: the fixed line is put at the front of the list.
FixLine_prepend ==
    /\ pc = "loop"
    /\ Len(fixed_lines) < Len(lines)
    /\ fixed_lines' = <<fix_values_line(lines[Len(fixed_lines) + 1])>> \o fixed_lines
    /\ UNCHANGED <<input_file, lines, output_file, pc, gen_vars>>

\* Lines 60-61: one iteration of the loop over lines.
FixLine ==
    /\ pc = "loop"
    /\ Len(fixed_lines) < Len(lines)
    /\ fixed_lines' = Append(fixed_lines, fix_values_line(lines[Len(fixed_lines) + 1]))
    /\ UNCHANGED <<input_file, lines, output_file, pc, gen_vars>>

\* Lines 63-64: f.writelines(fixed_lines) once the loop has ended.
WriteOutput ==
    /\ pc = "loop"
    /\ Len(fixed_lines) = Len(lines)
    /\ output_file' = [exists |-> TRUE, content |-> Concat(fixed_lines)]
    /\ pc' = "done"
    /\ UNCHANGED <<input_file, lines, fixed_lines, gen_vars>>

Next == ReadInput \/ FixLine \/ WriteOutput

Spec == Init /\ [][Next]_vars

----------------------------------------------------------------------------
(* generate_sql_from_csv: the values of a row and the INSERT built from it. *)

PyNone == <<"<None>">>          \* Python's None (DictReader's restval)
sql_header == <<"<sql_header>">> \* lines 9-43, one atom
sql_footer == <<"<sql_footer>">> \* lines 45-70, one atom

Columns ==
    {"name", "description", "instructions", "category", "primary_muscle",
     "secondary_muscle", "tertiary_muscle", "equipment_needed", "difficulty_level"}

\* Variant: only the first occurrence is replaced.
replace_first(s, old, new) ==
    LET at == Find(s, 1, old)
    IN  IF at > Len(s) THEN s
        ELSE SubSeq(s, 1, at - 1) \o new \o SubSeq(s, at + 1, Len(s))

\* str.replace(old, new) for a one-character old: every occurrence.
RECURSIVE replace(_, _, _)
replace(s, old, new) ==
    IF s = <<>> THEN <<>>
    ELSE (IF Head(s) = old THEN new ELSE <<Head(s)>>) \o replace(Tail(s), old, new)

\* Lines 79-81, 86: .replace("'", "''")
escape(v) == replace(v, QUOTE, <<QUOTE, QUOTE>>)

\* Variant: the sentinel is compared in lower case.
muscle_or_none_lowercase(v) == IF v # <<"n", "o", "n", "e">> THEN v ELSE PyNone

\* Lines 84-85: row[...] if row[...] != 'None' else None
muscle_or_none(v) == IF v # <<"N", "o", "n", "e">> THEN v ELSE PyNone

\* Truth value of a str or None, as the conditional expressions test it.
truthy(v) == v # PyNone /\ v # <<>>

\* Lines 93-94: "get_muscle_id('" + m + "')" if m else "NULL"
muscle_arg(m) ==
    IF truthy(m) THEN <<"g", "e", "t", "_", "m", "u", "s", "c", "l", "e", "_", "i", "d", "(", "'">> \o m \o <<"'", ")">> ELSE <<"N", "U", "L", "L">>

\* Line 96: str(secondary_muscle is not None).lower()
is_compound(secondary_muscle) ==
    IF secondary_muscle # PyNone THEN <<"t", "r", "u", "e">> ELSE <<"f", "a", "l", "s", "e">>

\* A value as an f-string field renders it.
fstr(v) == IF v = PyNone THEN <<"N", "o", "n", "e">> ELSE v

\* The row makes the loop body raise: a column the header lacks (KeyError), or
\* None where .replace is called (AttributeError).
raises(row) ==
    \/ \E c \in Columns : c \notin DOMAIN row
    \/ \E c \in {"name", "description", "instructions", "equipment_needed"} :
          row[c] = PyNone

\* Lines 90-96: the f-string.
insert_sql(row) ==
    <<"I", "N", "S", "E", "R", "T", " ", "I", "N", "T", "O", " ", "e", "x", "e", "r", "c", "i", "s", "e", "s", " ", "(", "n", "a", "m", "e", ",", " ", "d", "e", "s", "c", "r", "i", "p", "t", "i", "o", "n", ",", " ", "i", "n", "s", "t", "r", "u", "c", "t", "i", "o", "n", "s", ",", " ", "c", "a", "t", "e", "g", "o", "r", "y", ",", " ", "p", "r", "i", "m", "a", "r", "y", "_", "m", "u", "s", "c", "l", "e", "_", "g", "r", "o", "u", "p", "_", "i", "d", ",", " ", "s", "e", "c", "o", "n", "d", "a", "r", "y", "_", "m", "u", "s", "c", "l", "e", "_", "g", "r", "o", "u", "p", "_", "i", "d", ",", " ", "t", "e", "r", "t", "i", "a", "r", "y", "_", "m", "u", "s", "c", "l", "e", "_", "g", "r", "o", "u", "p", "_", "i", "d", ",", " ", "e", "q", "u", "i", "p", "m", "e", "n", "t", "_", "n", "e", "e", "d", "e", "d", ",", " ", "d", "i", "f", "f", "i", "c", "u", "l", "t", "y", "_", "l", "e", "v", "e", "l", ",", " ", "i", "s", "_", "c", "o", "m", "p", "o", "u", "n", "d", ",", " ", "e", "x", "e", "r", "c", "i", "s", "e", "_", "t", "y", "p", "e", ")", "\n", "V", "A", "L", "U", "E", "S", " ", "(", "'">>
    \o escape(row["name"]) \o <<"'", ",", " ", "'">> \o escape(row["description"]) \o <<"'", ",", " ", "'">>
    \o escape(row["instructions"]) \o <<"'", ",", " ", "'">> \o fstr(row["category"])
    \o <<"'", ",", " ", "\n", " ", " ", " ", " ", " ", " ", " ", " ", "g", "e", "t", "_", "m", "u", "s", "c", "l", "e", "_", "i", "d", "(", "'">> \o fstr(row["primary_muscle"])
    \o <<"'", ")", ",", " ", "\n", " ", " ", " ", " ", " ", " ", " ", " ">> \o muscle_arg(muscle_or_none(row["secondary_muscle"]))
    \o <<",", " ", "\n", " ", " ", " ", " ", " ", " ", " ", " ">> \o muscle_arg(muscle_or_none(row["tertiary_muscle"]))
    \o <<",", "\n", " ", " ", " ", " ", " ", " ", " ", " ", "'">> \o escape(row["equipment_needed"]) \o <<"'", ",", " ", "'">>
    \o fstr(row["difficulty_level"])
    \o <<"'", ",", " ", "\n", " ", " ", " ", " ", " ", " ", " ", " ">> \o is_compound(muscle_or_none(row["secondary_muscle"]))
    \o <<",", " ", "'", "s", "t", "r", "e", "n", "g", "t", "h", "'", ")", ";">>

----------------------------------------------------------------------------
(* Input files of the generator.                                           *)

MaxContextRows == 1     \* rows around the row under study

Row(name, description, instructions, secondary, tertiary, equipment, difficulty) ==
    [c \in Columns |->
        CASE c = "name" -> name
          [] c = "description" -> description
          [] c = "instructions" -> instructions
          [] c = "category" -> <<"F", "r", "e", "e", " ", "W", "e", "i", "g", "h", "t">>
          [] c = "primary_muscle" -> <<"L", "e", "g", "s">>
          [] c = "secondary_muscle" -> secondary
          [] c = "tertiary_muscle" -> tertiary
          [] c = "equipment_needed" -> equipment
          [] c = "difficulty_level" -> difficulty]

MuscleRows ==
    { Row(<<"S", "q", "u", "a", "t">>, <<"d">>, <<"i">>, sec, ter, <<"B", "a", "r">>, <<"B", "e", "g", "i", "n", "n", "e", "r">>) :
        sec \in {<<"N", "o", "n", "e">>, <<>>, <<"G", "l", "u", "t", "e", "s">>, <<"n", "o", "n", "e">>, <<"N", "o", "n", "e", " ">>, <<"N", "'", "o", "n", "e">>},
        ter \in {<<"N", "o", "n", "e">>, <<>>, <<"C", "o", "r", "e">>} }
QuoteRows ==
    { Row(n, d, i, <<"N", "o", "n", "e">>, <<"N", "o", "n", "e">>, e, <<"B", "e", "g", "i", "n", "n", "e", "r">>) :
        n \in {<<"O", "'", "B", "r", "i", "e", "n", "'", "s">>, <<"'">>, <<"a", "'", "'", "b", "'">>, <<>>},
        d \in {<<"d">>, <<"i", "t", "'", "s">>}, i \in {<<"i">>, <<"'", "x", "'">>},
        e \in {<<"B", "a", "r">>, <<"5", "'", " ", "b", "a", "r">>} }
\* The header's column order, and a row cut short after its first k values:
\* DictReader fills the missing values with None.
ColumnOrder ==
    <<"name", "description", "instructions", "category", "primary_muscle",
      "secondary_muscle", "tertiary_muscle", "equipment_needed", "difficulty_level">>
CutShort(row, k) ==
    [c \in Columns |->
        IF \E i \in 1..k : ColumnOrder[i] = c THEN row[c] ELSE PyNone]
ShortRows ==
    { CutShort(Row(<<"S", "q", "u", "a", "t">>, <<"d">>, <<"i">>, <<"G", "l", "u", "t", "e", "s">>, <<"C", "o", "r", "e">>, <<"B", "a", "r">>, <<"B", "e", "g", "i", "n", "n", "e", "r">>), k) :
        k \in {1, 3, 4, 5, 6, 7, 8} }
RowSet == MuscleRows \cup QuoteRows \cup ShortRows

ContextRows ==
    { Row(<<"C", "u", "r", "l">>, <<"d">>, <<"i">>, <<"N", "o", "n", "e">>, <<"N", "o", "n", "e">>, <<"B", "a", "r">>, <<"B", "e", "g", "i", "n", "n", "e", "r">>),
      Row(<<"J", "o", "'", "s", " ", "r", "o", "w">>, <<"d">>, <<"i">>, <<"L", "a", "t", "s">>, <<"C", "o", "r", "e">>, <<"B", "a", "r">>, <<"B", "e", "g", "i", "n", "n", "e", "r">>) }

\* The row without one column: what DictReader yields when the header lacks it.
Without(row, col) == [c \in Columns \ {col} |-> row[c]]

CsvFiles ==
    { [exists |-> TRUE, fieldnames |-> Columns, rows |-> rows] :
        \* at most MaxContextRows context rows in all
        rows \in { rs \in { pre \o <<r>> \o post :
                                r \in RowSet,
                                pre \in SeqsUpTo(ContextRows, MaxContextRows),
                                post \in SeqsUpTo(ContextRows, MaxContextRows) } :
                     Len(rs) <= MaxContextRows + 1 } }
    \cup { [exists |-> TRUE, fieldnames |-> Columns \ {col},
            rows |-> [i \in 1..n |-> Without(r, col)]] :
             col \in {"name", "secondary_muscle", "difficulty_level"},
             n \in 0..(MaxContextRows + 1), r \in ContextRows }
    \cup { [exists |-> TRUE, fieldnames |-> Columns, rows |-> <<>>],
           [exists |-> FALSE, fieldnames |-> {}, rows |-> <<>>] }

SqlFilesBefore ==
    { [exists |-> FALSE, open |-> FALSE, content |-> <<>>],
      [exists |-> TRUE, open |-> FALSE, content |-> <<"<earlier content>">>] }

----------------------------------------------------------------------------
(* generate_sql_from_csv()                                                 *)

FixerIdle ==
    /\ input_file = NoFile
    /\ lines = <<>>
    /\ fixed_lines = <<>>
    /\ output_file = NoFile
    /\ pc = "idle"

GenInit ==
    /\ csv_file \in CsvFiles
    /\ inserts = <<>>
    /\ row_index = 0
    /\ sql_file \in SqlFilesBefore
    /\ gpc = "start"
    /\ FixerIdle

\* Variant: the output file is opened along with the CSV file, to be written
\* row by row.
OpenCsv_and_output ==
    /\ gpc = "start"
    /\ gpc' = IF csv_file.exists THEN "rows" ELSE "failed"
    /\ sql_file' = [exists |-> TRUE, open |-> TRUE, content |-> <<>>]
    /\ UNCHANGED <<csv_file, inserts, row_index, fixer_vars>>

\* Lines 75-76: open the CSV file; a missing file raises.
OpenCsv ==
    /\ gpc = "start"
    /\ gpc' = IF csv_file.exists THEN "rows" ELSE "failed"
    /\ UNCHANGED <<csv_file, inserts, row_index, sql_file, fixer_vars>>

\* Lines 77-98: one iteration of the loop over the reader's rows.
ConvertRow ==
    /\ gpc = "rows"
    /\ row_index < Len(csv_file.rows)
    /\ LET row == csv_file.rows[row_index + 1]
       IN  IF raises(row)
             THEN /\ gpc' = "failed"
                  /\ UNCHANGED <<inserts, row_index>>
             ELSE /\ inserts' = Append(inserts, insert_sql(row))
                  /\ row_index' = row_index + 1
                  /\ gpc' = gpc
    /\ UNCHANGED <<csv_file, sql_file, fixer_vars>>

\* Line 101: open('all_exercises_insert.sql', 'w') once the reader is exhausted:
\* the file is created or truncated.
OpenOutput ==
    /\ gpc = "rows"
    /\ row_index = Len(csv_file.rows)
    /\ sql_file' = [exists |-> TRUE, open |-> TRUE, content |-> <<>>]
    /\ gpc' = "write_header"
    /\ UNCHANGED <<csv_file, inserts, row_index, fixer_vars>>

\* Line 102: output.write(sql_header)
WriteHeader ==
    /\ gpc = "write_header"
    /\ sql_file' = [sql_file EXCEPT !.content = @ \o sql_header]
    /\ gpc' = "write_inserts"
    /\ UNCHANGED <<csv_file, inserts, row_index, fixer_vars>>

\* Line 103: output.write('\n\n'.join(inserts))
WriteInserts ==
    /\ gpc = "write_inserts"
    /\ sql_file' = [sql_file EXCEPT !.content = @ \o join(<<NL, NL>>, inserts)]
    /\ gpc' = "write_footer"
    /\ UNCHANGED <<csv_file, inserts, row_index, fixer_vars>>

\* Line 104 and the end of the with block: output.write(sql_footer), close.
WriteFooter ==
    /\ gpc = "write_footer"
    /\ sql_file' = [sql_file EXCEPT !.content = @ \o sql_footer, !.open = FALSE]
    /\ gpc' = "done"
    /\ UNCHANGED <<csv_file, inserts, row_index, fixer_vars>>

GenNext ==
    OpenCsv \/ ConvertRow \/ OpenOutput \/ WriteHeader \/ WriteInserts \/ WriteFooter

GenSpec == GenInit /\ [][GenNext]_vars

----------------------------------------------------------------------------
(* Reading texts, for the properties below.                                *)

LineBreaks(text) == { p \in 1..Len(text) : text[p] = NL }

\* Position of the k-th line break of text (0 for k = 0).
LineBreakAt(text, k) ==
    IF k = 0 THEN 0
    ELSE CHOOSE p \in LineBreaks(text) :
            Cardinality({ b \in LineBreaks(text) : b <= p }) = k

\* Number of lines of a text: one per line break, and one more for a last
\* line that has none.
LineCount(text) ==
    Cardinality(LineBreaks(text))
    + (IF text # <<>> /\ text[Len(text)] # NL THEN 1 ELSE 0)

\* The i-th line of a text, with its line break if it has one.
TextLine(text, i) ==
    SubSeq(text, LineBreakAt(text, i - 1) + 1,
           IF i <= Cardinality(LineBreaks(text)) THEN LineBreakAt(text, i) ELSE Len(text))

\* The last character of a line that is not whitespace ("" if it has none).
LastVisible(line) ==
    LET visible == { p \in 1..Len(line) : line[p] \notin Whitespace }
    IN  IF visible = {} THEN ""
        ELSE line[CHOOSE p \in visible : \A v \in visible : v <= p]

QuotePositions(text) == { p \in 1..Len(text) : text[p] = QUOTE }

\* Position of the k-th quote of text.
QuoteAt(text, k) ==
    CHOOSE p \in QuotePositions(text) :
        Cardinality({ b \in QuotePositions(text) : b <= p }) = k

\* The k-th quoted field of a tuple literal whose fields hold no quote.
QuotedField(text, k) ==
    SubSeq(text, QuoteAt(text, 2 * k - 1) + 1, QuoteAt(text, 2 * k) - 1)

\* Fields of the tuple literal opening at text[open] = "(": one more than the
\* commas outside quotes before the closing parenthesis (0 if it never closes).
Quoted_at(text, p) == Cardinality({ b \in QuotePositions(text) : b < p }) % 2 = 1
FieldCount(text, open) ==
    LET closes == { p \in (open + 1)..Len(text) : text[p] = ")" /\ ~Quoted_at(text, p) }
    IN  IF open > Len(text) \/ text[open] # "(" \/ closes = {} THEN 0
        ELSE 1 + Cardinality({ p \in (open + 1)..Min(closes) :
                                  text[p] = "," /\ ~Quoted_at(text, p) })

\* Every quote of v written twice, position by position.
Doubled(v) ==
    LET before(i) == Cardinality({ j \in 1..(i - 1) : v[j] = QUOTE })
        total == Len(v) + before(Len(v) + 1)
    IN  [p \in 1..total |->
            v[CHOOSE i \in 1..Len(v) :
                /\ i + before(i) <= p
                /\ p <= i + before(i) + (IF v[i] = QUOTE THEN 1 ELSE 0)]]

----------------------------------------------------------------------------
(* Properties of the fixer, checked under Spec.                            *)

Done == 1..Len(fixed_lines)     \* the lines the loop has been through
IsCandidate(line) == startswith(strip(line), <<"(", "'">>)
Matches(line) == re_search(line).ok
Rewritten(i) == IsCandidate(lines[i]) /\ Matches(lines[i])

\* C1: a line whose stripped form does not start with (' , and a line that
\* does but does not match the 13-field pattern, comes back exactly as it
\* was: same text, same leading whitespace, same line terminator.
C1_PassThrough ==
    \A i \in Done :
        (~IsCandidate(lines[i]) \/ ~Matches(lines[i])) => fixed_lines[i] = lines[i]

C1_Witness ==
    /\ pc = "done"
    /\ \E i \in Done : IsCandidate(lines[i]) /\ ~Matches(lines[i])
    /\ \E i \in Done : ~IsCandidate(lines[i]) /\ lines[i] # strip(lines[i])

\* C2 as stated: for a matching line the merged description is the truncated
\* integer of the size followed by g when the unit is exactly g and the size
\* truncates to an integer greater than 1, and otherwise the size in its
\* original text immediately followed by the unit.
Truncated(size) == digits_value(SubSeq(size, 1, SkipWhile(size, 1, Digits) - 1), 0)
DescriptionAsStated(size, unit) ==
    IF unit = <<"g">> /\ Truncated(size) > 1
      THEN str_int(Truncated(size)) \o <<"g">>
      ELSE size \o unit
C2_ServingDescription ==
    \A i \in Done :
        Rewritten(i) =>
            LET g == re_search(lines[i]).groups
            IN  QuotedField(fixed_lines[i], 3) = DescriptionAsStated(g[3], g[4])

\* C2 holds of the sizes of at most 15 significant digits.
SignificantDigits(size) == Cardinality({ p \in 1..Len(size) : size[p] \in Digits })
C2_ShortSizes ==
    \A i \in Done :
        Rewritten(i) =>
            LET g == re_search(lines[i]).groups
            IN  SignificantDigits(g[3]) <= 15 =>
                    QuotedField(fixed_lines[i], 3) = DescriptionAsStated(g[3], g[4])

\* C3: a second run over the output of a first run changes nothing: every
\* line the first run produced is returned unchanged by fix_values_line (a
\* rewritten line does not match the pattern again), and so is every line
\* read back from the file it wrote.
C3_Idempotent ==
    /\ \A i \in Done : /\ fix_values_line(fixed_lines[i]) = fixed_lines[i]
                        /\ Rewritten(i) => ~Matches(fixed_lines[i])
    /\ pc = "done" =>
          LET second == readlines(output_file.content)
          IN  /\ \A k \in 1..Len(second) : fix_values_line(second[k]) = second[k]
              /\ Len(second) = Len(fixed_lines)

C3_Witness ==
    /\ pc = "done"
    /\ \E i \in Done : Rewritten(i) /\ fixed_lines[i] # lines[i]
                       /\ \E k \in 1..6 : endswith(QuotedField(fixed_lines[i], k), <<"(">>)

\* C4: the rewritten line ends with , and a line break if the last
\* non-whitespace character of the original is , ; with ; and a line break
\* if it is ; ; with the closing parenthesis and a line break otherwise; it
\* holds exactly one line break, also when the original had none.
C4_TrailingPunctuation ==
    \A i \in Done :
        Rewritten(i) =>
            LET out == fixed_lines[i]
                last == LastVisible(lines[i])
            IN  /\ Len(out) >= 2
                /\ LineBreaks(out) = {Len(out)}
                /\ out[Len(out) - 1] =
                       (IF last = "," THEN "," ELSE IF last = ";" THEN ";" ELSE ")")

C4_Witness ==
    /\ pc = "done"
    /\ \E i \in Done : Rewritten(i) /\ LastVisible(lines[i]) = ","
    /\ \E i \in Done : /\ Rewritten(i)
                       /\ LastVisible(lines[i]) = ";"
                       /\ lines[i][Len(lines[i])] # NL

\* C5 as stated: the rewritten line is a tuple literal of exactly 11 fields,
\* indented with two spaces.
TwoSpaceTuple(out) == startswith(out, <<" ", " ", "(">>)
C5_ElevenFields ==
    \A i \in Done :
        Rewritten(i) => TwoSpaceTuple(fixed_lines[i]) /\ FieldCount(fixed_lines[i], 3) = 11

\* C5 amended: the rewritten line is a tuple literal of exactly 12 fields
\* (the 13 of the pattern with size and unit merged into one), indented with
\* two spaces.
C5_TwelveFields ==
    \A i \in Done :
        Rewritten(i) => TwoSpaceTuple(fixed_lines[i]) /\ FieldCount(fixed_lines[i], 3) = 12

C5_Witness ==
    \E i \in Done :
        /\ Rewritten(i)
        /\ FieldCount(strip(lines[i]), 1) = 13
        /\ \E p \in 1..Len(QuotedField(lines[i], 1)) : QuotedField(lines[i], 1)[p] = ","
        /\ FieldCount(fixed_lines[i], 3) = 12

\* C10: main transforms the file line for line: the list it writes has as
\* many entries as the input has lines, its i-th entry is fix_values_line of
\* the i-th input line, in order, and the output file is these entries.
C10_LineForLine ==
    /\ pc \in {"loop", "done"} => Len(fixed_lines) <= LineCount(input_file.content)
    /\ \A i \in Done :
          fixed_lines[i] = fix_values_line(TextLine(input_file.content, i))
    /\ pc = "done" =>
          /\ Len(fixed_lines) = LineCount(input_file.content)
          /\ output_file = [exists |-> TRUE, content |-> Concat(fixed_lines)]

C10_Witness ==
    /\ pc = "done"
    /\ Len(fixed_lines) >= 2
    /\ \E i \in Done : fixed_lines[i] # lines[i]
    /\ \E i \in Done : fixed_lines[i] = lines[i]
    /\ input_file.content[Len(input_file.content)] # NL

----------------------------------------------------------------------------
(* Properties of the generator, checked under GenSpec.                     *)

Converted == 1..Len(inserts)    \* the rows the loop has been through
RowOf(k) == csv_file.rows[k]
NoneText == <<"N", "o", "n", "e">>

\* The arguments of an INSERT, read off its text: the statement spans seven
\* lines, the secondary muscle alone on the 4th, the tertiary on the 5th and
\* is_compound first on the 7th.
Indent8 == <<" ", " ", " ", " ", " ", " ", " ", " ">>
SecondaryArgument(ins) ==
    LET l == TextLine(ins, 4) IN SubSeq(l, Len(Indent8) + 1, Len(l) - Len(<<",", " ", "\n">>))
TertiaryArgument(ins) ==
    LET l == TextLine(ins, 5) IN SubSeq(l, Len(Indent8) + 1, Len(l) - Len(<<",", "\n">>))
CompoundArgument(ins) ==
    LET l == TextLine(ins, 7)
    IN  SubSeq(l, Len(Indent8) + 1, Len(l) - Len(<<",", " ", "'", "s", "t", "r", "e", "n", "g", "t", "h", "'", ")", ";">>))
WellFormedInsert(ins) ==
    /\ LineCount(ins) = 7
    /\ startswith(TextLine(ins, 4), Indent8) /\ endswith(TextLine(ins, 4), <<",", " ", "\n">>)
    /\ startswith(TextLine(ins, 5), Indent8) /\ endswith(TextLine(ins, 5), <<",", "\n">>)
    /\ startswith(TextLine(ins, 7), Indent8)
    /\ endswith(TextLine(ins, 7), <<",", " ", "'", "s", "t", "r", "e", "n", "g", "t", "h", "'", ")", ";">>)

\* C6 as stated: a row whose secondary_muscle is any string other than
\* "None", the empty string included, gets get_muscle_id('...') around that
\* value as its secondary-muscle argument and is_compound true.
C6_SecondaryWrapped ==
    \A k \in Converted :
        LET sec == RowOf(k)["secondary_muscle"]
        IN  (sec # PyNone /\ sec # NoneText) =>
                /\ WellFormedInsert(inserts[k])
                /\ SecondaryArgument(inserts[k]) = <<"g", "e", "t", "_", "m", "u", "s", "c", "l", "e", "_", "i", "d", "(", "'">> \o sec \o <<"'", ")">>
                /\ CompoundArgument(inserts[k]) = <<"t", "r", "u", "e">>

\* C6 holds of the rows whose secondary_muscle is not empty.
C6_NonEmptySecondary ==
    \A k \in Converted :
        LET sec == RowOf(k)["secondary_muscle"]
        IN  (sec # PyNone /\ sec # NoneText /\ sec # <<>>) =>
                /\ WellFormedInsert(inserts[k])
                /\ SecondaryArgument(inserts[k]) = <<"g", "e", "t", "_", "m", "u", "s", "c", "l", "e", "_", "i", "d", "(", "'">> \o sec \o <<"'", ")">>
                /\ CompoundArgument(inserts[k]) = <<"t", "r", "u", "e">>

\* C7: a row with secondary_muscle = "None" and tertiary_muscle = "None" gets
\* the bare keyword NULL for both muscle arguments and is_compound false.
C7_BothMusclesNull ==
    \A k \in Converted :
        (RowOf(k)["secondary_muscle"] = NoneText /\ RowOf(k)["tertiary_muscle"] = NoneText) =>
            /\ WellFormedInsert(inserts[k])
            /\ SecondaryArgument(inserts[k]) = <<"N", "U", "L", "L">>
            /\ TertiaryArgument(inserts[k]) = <<"N", "U", "L", "L">>
            /\ CompoundArgument(inserts[k]) = <<"f", "a", "l", "s", "e">>

C7_Witness ==
    /\ gpc = "done"
    /\ \E k \in Converted :
          RowOf(k)["secondary_muscle"] = NoneText /\ RowOf(k)["tertiary_muscle"] = NoneText
    /\ \E k \in Converted : RowOf(k)["secondary_muscle"] # NoneText

\* C8: the output file is not opened or written before every row has been
\* converted: a step that leaves the function reading, or failed, leaves the
\* file as it was; the file is open only with all rows converted; what is
\* written only grows; and at the end the file holds header, the INSERTs
\* joined by blank lines, and footer.
AllRowsConverted ==
    /\ csv_file.exists
    /\ Len(inserts) = Len(csv_file.rows)
    /\ \A k \in 1..Len(csv_file.rows) : ~raises(csv_file.rows[k])
C8_OutputAfterAllRows ==
    /\ [](/\ (sql_file.open \/ gpc \in {"write_header", "write_inserts", "write_footer", "done"})
              => AllRowsConverted
          /\ gpc = "failed" => ~sql_file.open /\ sql_file \in SqlFilesBefore
          /\ gpc = "done" =>
                sql_file = [exists |-> TRUE, open |-> FALSE,
                            content |-> sql_header \o join(<<NL, NL>>, inserts) \o sql_footer])
    /\ [][/\ gpc' \in {"start", "rows", "failed"} => sql_file' = sql_file
          /\ sql_file'.content # sql_file.content =>
                \/ gpc = "rows" /\ sql_file'.content = <<>>
                \/ /\ Len(sql_file'.content) > Len(sql_file.content)
                   /\ SubSeq(sql_file'.content, 1, Len(sql_file.content)) = sql_file.content
                   /\ gpc' = CASE gpc = "write_header" -> "write_inserts"
                               [] gpc = "write_inserts" -> "write_footer"
                               [] gpc = "write_footer" -> "done"
                               [] OTHER -> "none"]_vars

C8_Witness ==
    /\ gpc = "failed"
    /\ Len(inserts) >= 1
    /\ sql_file = [exists |-> TRUE, open |-> FALSE, content |-> <<"<earlier content>">>]

\* C9: every single quote of name, description, instructions and
\* equipment_needed stands doubled in the INSERT: the VALUES line and the
\* equipment line are the fixed text around the four values with each quote
\* written twice.
C9_QuotesDoubled ==
    \A k \in Converted :
        LET row == RowOf(k)
            ins == inserts[k]
        IN  /\ LineCount(ins) = 7
            /\ TextLine(ins, 2) =
                  <<"V", "A", "L", "U", "E", "S", " ", "(", "'">> \o Doubled(row["name"]) \o <<"'", ",", " ", "'">>
                  \o Doubled(row["description"]) \o <<"'", ",", " ", "'">>
                  \o Doubled(row["instructions"]) \o <<"'", ",", " ", "'">>
                  \o fstr(row["category"]) \o <<"'", ",", " ", "\n">>
            /\ TextLine(ins, 6) =
                  Indent8 \o <<"'">> \o Doubled(row["equipment_needed"]) \o <<"'", ",", " ", "'">>
                  \o fstr(row["difficulty_level"]) \o <<"'", ",", " ", "\n">>

QuoteCount(v) == Cardinality(QuotePositions(v))
C9_Witness ==
    /\ gpc = "done"
    /\ \E k \in Converted :
          /\ QuoteCount(RowOf(k)["name"]) >= 2
          /\ QuoteCount(RowOf(k)["description"]) >= 1
          /\ QuoteCount(RowOf(k)["instructions"]) >= 2
          /\ QuoteCount(RowOf(k)["equipment_needed"]) >= 1
          /\ QuoteCount(TextLine(inserts[k], 2)) = 8 + 2 * (QuoteCount(RowOf(k)["name"])
                + QuoteCount(RowOf(k)["description"]) + QuoteCount(RowOf(k)["instructions"]))

====
